---------------------------- MODULE Spec2Model ----------------------------
(***************************************************************************)
(* Model of the video-storytelling pipeline: the metadata lookup service   *)
(* (mcp_server.py), the five agents under agents/ and the orchestrator     *)
(* generate_family_story_video (agents/agent.py), started by main.py.      *)
(*                                                                         *)
(* Text is modelled as a sequence of tokens: a Python string is the        *)
(* concatenation of its tokens, an f-string is the concatenation of its    *)
(* literal pieces and of the interpolated values, and "t in s" is the      *)
(* occurrence of the tokens of t as a contiguous run of s.                 *)
(***************************************************************************)
EXTENDS Integers, Sequences, FiniteSets, TLC

VARIABLES
    entry,          \* the function this behaviour calls at top level
    pc,             \* position of the single thread of control
    exc,            \* the exception that ended the call, or "none"
    ret,            \* <<v>> once the top-level call has returned v, <<>> before
    server,         \* the lookup service process: "not_started", "starting", "listening", "terminated"
    registry,       \* content of mcp_data.json: family identifier -> list of entries
    request,        \* <<r>> while the GET r is in flight, else <<>>
    response,       \* <<a>> once the service has answered a, else <<>>
    model_calls,    \* generate_content calls made by do_GET
    requests_sent,  \* requests.get calls made by get_character_images
    fs,             \* the local files: path -> kind of content
    family_name,    \* argument of the orchestrator and of get_character_images
    character_data, \* <<v>>: value returned by get_character_images
    family_history, \* <<v>>: argument of create_story
    story,          \* <<v>>: value returned by create_story
    script,         \* <<v>>: value returned by create_script
    images,         \* <<v>>: value returned by create_images
    calls,          \* stage calls and returns, in the order they happen
    img_i,          \* create_images: index of the scene being processed
    image_paths,    \* create_images: the list being built
    gen_log,        \* create_images: the generation requests issued so far
    vid_i,          \* create_video: index of the scene being processed
    video_clips,    \* create_video: the list being built
    jobs,           \* create_video: the video jobs submitted so far
    operation,      \* create_video: <<op>>, the job being polled
    polls,          \* create_video: status checks made for the current job
    ffmpeg_calls,   \* create_video: concatenation commands run
    manifest_writes,\* create_video: manifests written
    job_results     \* create_video: how each finished job ended, in scene order

ctl == <<entry, pc, exc, ret>>
net == <<server, registry, request, response, model_calls, requests_sent>>
data == <<family_name, character_data, family_history, story, script, images>>
img == <<img_i, image_paths, gen_log>>
vid == <<vid_i, video_clips, jobs, operation, polls, ffmpeg_calls, manifest_writes,
         job_results>>
vars == <<ctl, net, fs, data, calls, img, vid>>

None == <<>>
Some(v) == <<v>>

----------------------------------------------------------------------------
(* Bounds of the model *)

MaxRecords == 3   \* records handed to create_story
MaxScenes == 3    \* scenes of a story or script handed to a stage on its own
MaxChars == 2     \* entries the registry holds for one family
MaxEntries == 2   \* entries of a script handed to create_images on its own
MaxPolls == 1     \* status checks of one video job before the model stops looking

----------------------------------------------------------------------------
(* Text *)

\* t occurs in s as a contiguous run (Python: t in s)
Contains(s, t) ==
    \E k \in 0..(Len(s) - Len(t)) : \A j \in 1..Len(t) : s[k + j] = t[j]

\* Python str.replace(old, "") for a one-token old
RemoveToken(s, old) == SelectSeq(s, LAMBDA tok : tok # old)

Names == {"John", "Jane", "Unknown"}
Places == {"Springfield", "Rivertown", "Unknown"}

\* image_url values of the registry; urlparse splits them into parts
Urls == { [scheme |-> "file", netloc |-> "", path |-> <<"/portraits/", "a", ".jpg">>],
          [scheme |-> "file", netloc |-> "", path |-> <<"/portraits/", "b", ".jpg">>] }

CharacterRecords == [name : Names, birth_place : Places, image_url : Urls]

RECURSIVE SeqsUpTo(_, _)
SeqsUpTo(S, n) ==
    IF n = 0 THEN { <<>> }
    ELSE LET shorter == SeqsUpTo(S, n - 1)
         IN  shorter \cup { Append(s, x) : s \in { t \in shorter : Len(t) = n - 1 }, x \in S }

----------------------------------------------------------------------------
(* agents/story_agent.py *)

SceneCount == 4

\* scene 1 with the second birth place taken from the first record
SceneOneDescription_mut_place(records) ==
    <<"Narrator: ", "Meet ", records[1].name, ", born in ", records[1].birth_place,
      ", a man of strength and skill. And this is ", records[2].name,
      ", born in ", records[1].birth_place, ", a woman of knowledge and grace.">>

SceneOneDescription(records) ==
    <<"Narrator: ", "Meet ", records[1].name, ", born in ", records[1].birth_place,
      ", a man of strength and skill. And this is ", records[2].name,
      ", born in ", records[2].birth_place, ", a woman of knowledge and grace.">>

SceneTwoDescription(records) ==
    <<"Narrator: ", records[1].name,
      " was a blacksmith, his days filled with the clang of the hammer and the heat of the forge.">>

SceneThreeDescription(records) ==
    <<"Narrator: ", records[2].name,
      " was a teacher, her days spent in a library, surrounded by books and knowledge.">>

SceneFourDescription ==
    <<"Narrator: ",
      "They met in a library, a place of quiet and books, where their love story began. Their journey together led them to a beautiful wedding, a celebration of their love.">>

\* the dict returned by create_story; records[1] is Python's records[0]
create_story_mut_dup(fh) ==
    [scenes |-> <<
        [scene_number |-> 1, description |-> SceneOneDescription(fh.records)],
        [scene_number |-> 2, description |-> SceneTwoDescription(fh.records)],
        [scene_number |-> 2, description |-> SceneThreeDescription(fh.records)],
        [scene_number |-> 4, description |-> SceneFourDescription] >>]

create_story(fh) ==
    [scenes |-> <<
        [scene_number |-> 1, description |-> SceneOneDescription(fh.records)],
        [scene_number |-> 2, description |-> SceneTwoDescription(fh.records)],
        [scene_number |-> 3, description |-> SceneThreeDescription(fh.records)],
        [scene_number |-> 4, description |-> SceneFourDescription] >>]

\* records[0] / records[1] raise IndexError on a list shorter than two
StoryRaises(fh) == Len(fh.records) < 2

----------------------------------------------------------------------------
(* agents/script_agent.py *)

PlaceholderDialogue == <<"This is a placeholder dialogue.">>

\* a script entry numbered by a fresh counter instead of the scene's number
ScriptEntryOf_mut_number(scene) ==
    [scene_number |-> 1,
     description |-> scene.description,
     dialogue |-> PlaceholderDialogue]

ScriptEntryOf(scene) ==
    [scene_number |-> scene.scene_number,
     description |-> scene.description,
     dialogue |-> PlaceholderDialogue]

RECURSIVE AppendEntries(_, _)
AppendEntries(script_scenes, scenes) ==
    IF scenes = <<>> THEN script_scenes
    ELSE AppendEntries(Append(script_scenes, ScriptEntryOf(Head(scenes))), Tail(scenes))

create_script(st) == [script |-> AppendEntries(<<>>, st.scenes)]

----------------------------------------------------------------------------
(* Local files *)

\* os.path.join(dir, name)
PathJoin(dir, name) == dir \o <<"/">> \o name

\* urlparse(url).path
UrlPath(url) == url.path

Exists(path) == path \in DOMAIN fs

\* open(path, "w") / open(path, "wb") followed by a write
WriteFile(files, path, kind) ==
    [p \in DOMAIN files \cup {path} |-> IF p = path THEN kind ELSE files[p]]

\* os.remove(path)
RemoveFile(files, path) == [p \in DOMAIN files \ {path} |-> files[p]]

PortraitFs(urls) == [p \in { UrlPath(u) : u \in urls } |-> "portrait"]

----------------------------------------------------------------------------
(* mcp_server.py *)

Families == {"Doe", "Smith"}

EntryA == [image_url |-> [scheme |-> "file", netloc |-> "", path |-> <<"/portraits/", "a", ".jpg">>]]
EntryB == [image_url |-> [scheme |-> "file", netloc |-> "", path |-> <<"/portraits/", "b", ".jpg">>]]
EntryNamed == [image_url |-> EntryB.image_url, name |-> "Jane"]
RegistryEntries == {EntryA, EntryB, EntryNamed}

\* dict.get(key, default)
DictGet(d, key, default) == IF key \in DOMAIN d THEN d[key] ELSE default

\* parse_qs: pairs with a blank value are dropped (keep_blank_values=False)
ParseQs(query) == SelectSeq(query, LAMBDA kv : kv[2] # "")

\* query_components.get('family_name', [None])[0]
QueryFamilyName(query) ==
    LET values == SelectSeq(ParseQs(query), LAMBDA kv : kv[1] = "family_name")
    IN  IF values = <<>> THEN None ELSE Some(values[1][2])

\* self.path.startswith('/mcp')
IsMcpPath(path) == Len(path) >= 1 /\ path[1] = "/mcp"

\* JSON texts the vision model may answer with, and what json.loads makes of them
JsonJohn == "{\"name\": \"John\", \"birth_place\": \"Springfield\"}"
JsonJane == "{\"name\": \"Jane\", \"birth_place\": \"Rivertown\"}"
JsonPlaceOnly == "{\"birth_place\": \"Rivertown\"}"
JsonArray == "[]"

JsonObjects ==
    (JsonJohn :> [name |-> "John", birth_place |-> "Springfield"])
    @@ (JsonJane :> [name |-> "Jane", birth_place |-> "Rivertown"])
    @@ (JsonPlaceOnly :> [birth_place |-> "Rivertown"])

IsSpace(tok) == tok = " "

\* str.strip(): leading and trailing whitespace removed
RECURSIVE LStrip(_)
LStrip(t) == IF t # <<>> /\ IsSpace(Head(t)) THEN LStrip(Tail(t)) ELSE t
RECURSIVE RStrip(_)
RStrip(t) == IF t # <<>> /\ IsSpace(t[Len(t)]) THEN RStrip(SubSeq(t, 1, Len(t) - 1)) ELSE t
Strip(t) == RStrip(LStrip(t))

\* the markdown fence (three backquotes) and the fence followed by json
Fence == "<fence>"
FenceJson == "<fence>json"

\* text.strip().replace(FenceJson, "").replace(Fence, "")
CleanJsonStr(text) == RemoveToken(RemoveToken(Strip(text), FenceJson), Fence)

\* json.loads: whitespace around the document is ignored
JsonLoads(json_str) ==
    LET doc == SelectSeq(json_str, LAMBDA tok : ~IsSpace(tok))
    IN  IF Len(doc) = 1 /\ doc[1] \in DOMAIN JsonObjects
        THEN [ok |-> TRUE, is_dict |-> TRUE, value |-> JsonObjects[doc[1]]]
        ELSE IF Len(doc) = 1 /\ doc[1] = JsonArray
        THEN [ok |-> TRUE, is_dict |-> FALSE, value |-> <<>>]
        ELSE [ok |-> FALSE, is_dict |-> FALSE, value |-> <<>>]

\* the text of a one-token string
TextOf(t) == t[1]

\* what one generate_content call of do_GET can come back with
ReplyNoCandidates == [raises |-> FALSE, candidates |-> FALSE, text |-> <<>>]
ReplyFencedJohn == [raises |-> FALSE, candidates |-> TRUE,
                    text |-> <<FenceJson, " ", JsonJohn, " ", Fence>>]
ReplyJane == [raises |-> FALSE, candidates |-> TRUE, text |-> <<JsonJane>>]
ReplyPlaceOnly == [raises |-> FALSE, candidates |-> TRUE, text |-> <<" ", JsonPlaceOnly>>]
ReplyRawText == [raises |-> FALSE, candidates |-> TRUE, text |-> <<"Jane", " ">>]
ReplyArray == [raises |-> FALSE, candidates |-> TRUE, text |-> <<JsonArray>>]
ReplyRaises == [raises |-> TRUE, candidates |-> FALSE, text |-> <<>>]

ModelReplies == {ReplyNoCandidates, ReplyFencedJohn, ReplyJane, ReplyPlaceOnly,
                 ReplyRawText, ReplyArray, ReplyRaises}

DefaultMetadata == [name |-> "Unknown", birth_place |-> "Unknown"]

\* the metadata dict do_GET derives from one reply (lines 42-50)
MetadataOf(reply) ==
    IF ~reply.candidates THEN [ok |-> TRUE, value |-> DefaultMetadata]
    ELSE LET parsed == JsonLoads(CleanJsonStr(reply.text))
         IN  IF ~parsed.ok
             THEN [ok |-> TRUE,
                   value |-> [DefaultMetadata EXCEPT !.name = TextOf(Strip(reply.text))]]
             ELSE [ok |-> parsed.is_dict, value |-> parsed.value]

\* one entry appended to response_data (lines 53-57)
ResponseEntry(metadata, character) ==
    [name |-> DictGet(metadata, "name", DictGet(character, "name", "Unknown")),
     birth_place |-> DictGet(metadata, "birth_place", "Unknown"),
     image_url |-> character.image_url]

\* the loop over data[family_name]: the replies are consumed in order; the
\* loop ends early when a portrait cannot be opened, the model call raises
\* or the parsed JSON is no dict
RECURSIVE AnalyzeCharacters(_, _, _, _)
AnalyzeCharacters(characters, replies, files, acc) ==
    IF characters = <<>> THEN acc
    ELSE IF UrlPath(Head(characters).image_url) \notin DOMAIN files
    THEN [acc EXCEPT !.crashed = TRUE]
    ELSE LET reply == Head(replies)
             called == [acc EXCEPT !.calls = @ + 1]
         IN  IF reply.raises \/ ~MetadataOf(reply).ok
             THEN [called EXCEPT !.crashed = TRUE]
             ELSE AnalyzeCharacters(Tail(characters), Tail(replies), files,
                      [called EXCEPT !.response_data =
                          Append(@, ResponseEntry(MetadataOf(reply).value, Head(characters)))])

\* json.dumps of the list of dicts: each dict as its key/value pairs in
\* insertion order
JsonDumps(response_data) ==
    [i \in 1..Len(response_data) |->
        << <<"name", response_data[i].name>>,
           <<"birth_place", response_data[i].birth_place>>,
           <<"image_url", response_data[i].image_url>> >>]

\* response.json() of such a body
JsonPairValue(pairs, key) ==
    LET i == CHOOSE j \in 1..Len(pairs) : pairs[j][1] = key IN pairs[i][2]

ResponseJson(body) ==
    [i \in 1..Len(body) |->
        [name |-> JsonPairValue(body[i], "name"),
         birth_place |-> JsonPairValue(body[i], "birth_place"),
         image_url |-> JsonPairValue(body[i], "image_url")]]

Answer(status, body) == [sent |-> TRUE, status |-> status, body |-> body]
\* the handler raised: the connection is closed without a status line
NoAnswer == [sent |-> FALSE, status |-> 0, body |-> <<>>]

\* "if family_name:" is false for None and for the empty string
Truthy(name) == name # None /\ name[1] # ""

\* a handler that forgets the membership test and answers an unknown family
\* with an empty list
McpAnswer_mut_nolookup(req, replies) ==
    LET name == QueryFamilyName(req.query)
    IN  IF ~Truthy(name)
        THEN [answer |-> Answer(400, <<"Missing family_name parameter">>), calls |-> 0]
        ELSE LET run == AnalyzeCharacters(DictGet(registry, name[1], <<>>), replies, fs,
                            [response_data |-> <<>>, calls |-> 0, crashed |-> FALSE])
             IN  [answer |-> IF run.crashed THEN NoAnswer
                             ELSE Answer(200, JsonDumps(run.response_data)),
                  calls |-> run.calls]

\* MCPServer.do_GET for a path under /mcp
McpAnswer(req, replies) ==
    LET name == QueryFamilyName(req.query)
    IN  IF ~Truthy(name)
        THEN [answer |-> Answer(400, <<"Missing family_name parameter">>), calls |-> 0]
        ELSE IF name[1] \notin DOMAIN registry
        THEN [answer |-> Answer(404, <<"Family not found">>), calls |-> 0]
        ELSE LET run == AnalyzeCharacters(registry[name[1]], replies, fs,
                            [response_data |-> <<>>, calls |-> 0, crashed |-> FALSE])
             IN  [answer |-> IF run.crashed THEN NoAnswer
                             ELSE Answer(200, JsonDumps(run.response_data)),
                  calls |-> run.calls]

DoGetMcp(ReplySet) ==
    /\ server = "listening"
    /\ request # None
    /\ response = None
    /\ IsMcpPath(request[1].path)
    /\ \E replies \in [1..MaxChars -> ReplySet] :
          LET out == McpAnswer(request[1], replies)
          IN  /\ response' = Some(out.answer)
              /\ model_calls' = model_calls + out.calls
    /\ UNCHANGED <<ctl, server, registry, request, requests_sent, fs, data, calls, img, vid>>

\* any other path goes to SimpleHTTPRequestHandler.do_GET, which serves a
\* file of the working directory or answers 404
DoGetStatic ==
    /\ server = "listening"
    /\ request # None
    /\ response = None
    /\ ~IsMcpPath(request[1].path)
    /\ \E status \in {200, 404} : response' = Some(Answer(status, <<"static">>))
    /\ UNCHANGED <<ctl, server, registry, request, model_calls, requests_sent, fs, data,
                   calls, img, vid>>

----------------------------------------------------------------------------
(* agents/history_agent.py *)

\* f"http://localhost:8000/mcp?family_name={family_name}"
LookupRequest(name) == [path |-> <<"/mcp">>, query |-> << <<"family_name", name>> >>]

\* str(status_code)
StatusText(status) ==
    CASE status = 200 -> "200" [] status = 400 -> "400" [] status = 404 -> "404"
      [] OTHER -> "?"

ErrorValue(status) ==
    [error |-> <<"Failed to fetch character images: ", StatusText(status)>>]

\* a fetcher that takes every status below 404 for a success
FetchResult_mut_status(answer) ==
    IF answer.status < 404
    THEN [characters |-> IF answer.status = 200 THEN ResponseJson(answer.body) ELSE <<>>]
    ELSE ErrorValue(answer.status)

\* the value get_character_images returns for an answer
FetchResult(answer) ==
    IF answer.status = 200
    THEN [characters |-> ResponseJson(answer.body)]
    ELSE ErrorValue(answer.status)

----------------------------------------------------------------------------
(* Control: calls, returns and exceptions *)

Called(stage) == Append(calls, <<"call", stage>>)
Returned(log, stage) == Append(log, <<"return", stage>>)

\* the top-level call returns v
Finish(v) == pc' = "returned" /\ ret' = Some(v) /\ UNCHANGED <<entry, exc>>

\* control moves on inside the orchestrator
Goto(label) == pc' = label /\ UNCHANGED <<entry, exc, ret>>

\* an exception nobody catches: neither the orchestrator nor main has a handler
Raise(e) == pc' = "raised" /\ exc' = e /\ UNCHANGED <<entry, ret>>

----------------------------------------------------------------------------
(* get_character_images *)

FetchSend ==
    /\ pc = "call_fetch"
    /\ server = "listening"
    /\ requests_sent' = requests_sent + 1
    /\ request' = Some(LookupRequest(family_name))
    /\ calls' = Called("get_character_images")
    /\ Goto("await_response")
    /\ UNCHANGED <<server, registry, response, model_calls, fs, data, img, vid>>

\* nothing listens on the port yet: requests.get raises
FetchRefused ==
    /\ pc = "call_fetch"
    /\ server # "listening"
    /\ requests_sent' = requests_sent + 1
    /\ calls' = Called("get_character_images")
    /\ Raise("ConnectionError")
    /\ UNCHANGED <<server, registry, request, response, model_calls, fs, data, img, vid>>

FetchReceive ==
    /\ pc = "await_response"
    /\ response # None
    /\ response[1].sent
    /\ character_data' = Some(FetchResult(response[1]))
    /\ calls' = Returned(calls, "get_character_images")
    /\ IF entry = "get_character_images"
       THEN Finish(character_data'[1])
       ELSE Goto("story_argument")
    /\ UNCHANGED <<net, fs, family_name, family_history, story, script, images, img, vid>>

\* a fetcher that sends the request again when the connection is closed
FetchDisconnected_mut_retry ==
    /\ pc = "await_response"
    /\ response # None
    /\ ~response[1].sent
    /\ request' = None /\ response' = None
    /\ Goto("call_fetch")
    /\ UNCHANGED <<server, registry, model_calls, requests_sent, fs, data, calls, img, vid>>

\* the service closed the connection without answering: requests.get raises
FetchDisconnected ==
    /\ pc = "await_response"
    /\ response # None
    /\ ~response[1].sent
    /\ Raise("ConnectionError")
    /\ UNCHANGED <<net, fs, data, calls, img, vid>>

----------------------------------------------------------------------------
(* create_story and create_script as stages *)

StoryReturn ==
    /\ pc = "call_story"
    /\ ~StoryRaises(family_history[1])
    /\ story' = Some(create_story(family_history[1]))
    /\ calls' = Returned(Called("create_story"), "create_story")
    /\ IF entry = "create_story" THEN Finish(story'[1]) ELSE Goto("call_script")
    /\ UNCHANGED <<net, fs, family_name, character_data, family_history, script, images,
                   img, vid>>

StoryIndexError ==
    /\ pc = "call_story"
    /\ StoryRaises(family_history[1])
    /\ calls' = Called("create_story")
    /\ Raise("IndexError")
    /\ UNCHANGED <<net, fs, data, img, vid>>

ScriptReturn ==
    /\ pc = "call_script"
    /\ script' = Some(create_script(story[1]))
    /\ calls' = Returned(Called("create_script"), "create_script")
    /\ IF entry = "create_script" THEN Finish(script'[1]) ELSE Goto("call_images")
    /\ UNCHANGED <<net, fs, family_name, character_data, family_history, story, images,
                   img, vid>>

----------------------------------------------------------------------------
(* agents/image_agent.py *)

images_dir == <<"/usr/local/google/home/mlad/adk-demo/images">>

\* str(n) for the scene numbers in use
NumText(n) ==
    CASE n = 1 -> "1" [] n = 2 -> "2" [] n = 3 -> "3" [] n = 4 -> "4" [] n = 5 -> "5"
      [] OTHER -> "n"

StyleSuffix ==
    <<", in the style of a vintage photograph, with a warm, sepia-toned palette, cinematic, photorealistic, the characters are looking away from the camera, their faces are not clearly visible, detailed environment.">>

BasePrompt(scene) == RemoveToken(scene.description, "Narrator: ")
BeforePrompt(scene) == <<"Before the action: ">> \o BasePrompt(scene) \o StyleSuffix
\* an after prompt without the special case of scene 4
AfterPrompt_mut_wedding(scene) ==
    <<"After the action: ">> \o BasePrompt(scene) \o StyleSuffix

AfterPrompt(scene) ==
    IF scene.scene_number = 4
    THEN <<"A wedding picture of John and Jane">> \o StyleSuffix
    ELSE <<"After the action: ">> \o BasePrompt(scene) \o StyleSuffix

StartImagePath(scene) ==
    PathJoin(images_dir, <<"scene_", NumText(scene.scene_number), "_start.png">>)
EndImagePath(scene) ==
    PathJoin(images_dir, <<"scene_", NumText(scene.scene_number), "_end.png">>)

\* character["name"] in base_prompt: the names in use are whole tokens and
\* occur in no literal piece of a description
NameIn(name, prompt) == \E k \in 1..Len(prompt) : prompt[k] = name

\* the portraits read into character_parts for a scene, in list order
ReferencePaths(scene, character_images) ==
    IF "characters" \notin DOMAIN character_images THEN <<>>
    ELSE LET chars == character_images.characters
             RECURSIVE Collect(_)
             Collect(k) ==
                 IF k > Len(chars) THEN <<>>
                 ELSE (IF NameIn(chars[k].name, BasePrompt(scene))
                       THEN <<UrlPath(chars[k].image_url)>> ELSE <<>>) \o Collect(k + 1)
         IN  Collect(1)

ReferencesReadable(scene, character_images) ==
    \A k \in 1..Len(ReferencePaths(scene, character_images)) :
        Exists(ReferencePaths(scene, character_images)[k])

\* the exception the scene 1 branch raises on the character data, or "none"
SceneOneError(character_images) ==
    IF "characters" \notin DOMAIN character_images THEN "KeyError"
    ELSE IF Len(character_images.characters) < 2 THEN "IndexError"
    ELSE "none"

ImagePair(scene, start, end) ==
    [scene_number |-> scene.scene_number, start_image_path |-> start, end_image_path |-> end]

\* what one generate_content call of generate_image can come back with
ImageOutcomes == {"image", "no_image", "raises"}

\* a generate_image whose handler writes nothing
GenerateImage_mut_silent(files, output_path, outcome) ==
    IF outcome = "image"
    THEN [fs |-> WriteFile(files, output_path, "image"), ok |-> TRUE]
    ELSE [fs |-> files, ok |-> FALSE]

\* generate_image(prompt, output_path): the file it leaves and what it returns
GenerateImage(files, output_path, outcome) ==
    IF outcome = "image"
    THEN [fs |-> WriteFile(files, output_path, "image"), ok |-> TRUE]
    ELSE [fs |-> WriteFile(files, output_path, "placeholder"), ok |-> FALSE]

GenRequest(prompt, output_path, parts, ok) ==
    [prompt |-> prompt, output_path |-> output_path, parts |-> parts, ok |-> ok]

CurrentScene == script[1].script[img_i + 1]

ImgEnter ==
    /\ pc = "call_images"
    /\ calls' = Called("create_images")
    /\ img_i' = 0 /\ image_paths' = <<>> /\ gen_log' = <<>>
    /\ Goto("images_loop")
    /\ UNCHANGED <<net, fs, data, vid>>

\* scene 1: the two portraits are used as they are
ImgSceneOne ==
    /\ pc = "images_loop"
    /\ img_i < Len(script[1].script)
    /\ CurrentScene.scene_number = 1
    /\ SceneOneError(character_data[1]) = "none"
    /\ image_paths' = Append(image_paths,
            ImagePair(CurrentScene,
                      UrlPath(character_data[1].characters[1].image_url),
                      UrlPath(character_data[1].characters[2].image_url)))
    /\ img_i' = img_i + 1
    /\ UNCHANGED <<ctl, net, fs, data, calls, gen_log, vid>>

ImgSceneOneRaises ==
    /\ pc = "images_loop"
    /\ img_i < Len(script[1].script)
    /\ CurrentScene.scene_number = 1
    /\ SceneOneError(character_data[1]) # "none"
    /\ Raise(SceneOneError(character_data[1]))
    /\ UNCHANGED <<net, fs, data, calls, img, vid>>

\* another scene: a portrait to attach cannot be opened
ImgReferenceMissing ==
    /\ pc = "images_loop"
    /\ img_i < Len(script[1].script)
    /\ CurrentScene.scene_number # 1
    /\ ~ReferencesReadable(CurrentScene, character_data[1])
    /\ Raise("FileNotFoundError")
    /\ UNCHANGED <<net, fs, data, calls, img, vid>>

\* generate_image(before_prompt, start_image_path)
ImgGenerateBefore ==
    /\ pc = "images_loop"
    /\ img_i < Len(script[1].script)
    /\ CurrentScene.scene_number # 1
    /\ ReferencesReadable(CurrentScene, character_data[1])
    /\ \E outcome \in ImageOutcomes :
          LET out == GenerateImage(fs, StartImagePath(CurrentScene), outcome)
          IN  /\ fs' = out.fs
              /\ gen_log' = Append(gen_log,
                      GenRequest(BeforePrompt(CurrentScene), StartImagePath(CurrentScene),
                                 ReferencePaths(CurrentScene, character_data[1]), out.ok))
    /\ Goto("images_after")
    /\ UNCHANGED <<net, data, calls, img_i, image_paths, vid>>

\* generate_image(after_prompt, end_image_path), then the pair is appended
ImgGenerateAfter ==
    /\ pc = "images_after"
    /\ \E outcome \in ImageOutcomes :
          LET out == GenerateImage(fs, EndImagePath(CurrentScene), outcome)
          IN  /\ fs' = out.fs
              /\ gen_log' = Append(gen_log,
                      GenRequest(AfterPrompt(CurrentScene), EndImagePath(CurrentScene),
                                 ReferencePaths(CurrentScene, character_data[1]), out.ok))
    /\ image_paths' = Append(image_paths,
            ImagePair(CurrentScene, StartImagePath(CurrentScene), EndImagePath(CurrentScene)))
    /\ img_i' = img_i + 1
    /\ Goto("images_loop")
    /\ UNCHANGED <<net, data, calls, vid>>

ImgReturn ==
    /\ pc = "images_loop"
    /\ img_i = Len(script[1].script)
    /\ images' = Some([images |-> image_paths])
    /\ calls' = Returned(calls, "create_images")
    /\ IF entry = "create_images" THEN Finish(images'[1]) ELSE Goto("call_video")
    /\ UNCHANGED <<net, fs, family_name, character_data, family_history, story, script,
                   img, vid>>

----------------------------------------------------------------------------
(* agents/video_agent.py *)

videos_dir == <<"/usr/local/google/home/mlad/adk-demo/videos">>

PanInstruction ==
    <<" The camera pans from left to center on the first person, then from right to center on the second person.">>

\* the prompt of the job for position i (0-based, as in enumerate)
VideoPrompt(i) ==
    IF i = 0 THEN script[1].script[i + 1].description \o PanInstruction
    ELSE script[1].script[i + 1].description

ClipPath(i) == PathJoin(videos_dir, <<"scene_", NumText(i + 1), ".mp4">>)
FinalVideoPath == PathJoin(videos_dir, <<"final_video.mp4">>)
FileListPath == PathJoin(videos_dir, <<"file_list.txt">>)

\* the lines written to the manifest
ManifestLines(clips) == [k \in 1..Len(clips) |-> <<"file '">> \o clips[k] \o <<"'">>]

\* what generate_videos and operations.get can report about a job
JobStates == {"running", "done_with_response", "done_without_response"}

\* a job seeded by the end image of the pair
VideoJob_mut_end(i) ==
    [position |-> i, prompt |-> VideoPrompt(i),
     image |-> images[1].images[i + 1].end_image_path]

VideoJob(i) ==
    [position |-> i, prompt |-> VideoPrompt(i),
     image |-> images[1].images[i + 1].start_image_path]

RECURSIVE RemoveAll(_, _)
RemoveAll(files, paths) ==
    IF paths = <<>> THEN files ELSE RemoveAll(RemoveFile(files, Head(paths)), Tail(paths))

VidEnter ==
    /\ pc = "call_video"
    /\ calls' = Called("create_video")
    /\ vid_i' = 0 /\ video_clips' = <<>> /\ jobs' = <<>> /\ operation' = None
    /\ polls' = 0 /\ ffmpeg_calls' = 0 /\ manifest_writes' = 0 /\ job_results' = <<>>
    /\ Goto("video_loop")
    /\ UNCHANGED <<net, fs, data, img>>

\* client.models.generate_videos returns an operation
VidSubmit ==
    /\ pc = "video_loop"
    /\ vid_i < Len(script[1].script)
    /\ Exists(VideoJob(vid_i).image)
    /\ jobs' = Append(jobs, VideoJob(vid_i))
    /\ \E st \in JobStates : operation' = Some(st)
    /\ polls' = 0
    /\ Goto("video_poll")
    /\ UNCHANGED <<net, fs, data, calls, img, vid_i, video_clips, ffmpeg_calls,
                   manifest_writes, job_results>>

\* client.models.generate_videos raises: create_video has no handler
VidSubmitRaises ==
    /\ pc = "video_loop"
    /\ vid_i < Len(script[1].script)
    /\ Exists(VideoJob(vid_i).image)
    /\ jobs' = Append(jobs, VideoJob(vid_i))
    /\ Raise("ClientError")
    /\ UNCHANGED <<net, fs, data, calls, img, vid_i, video_clips, operation, polls,
                   ffmpeg_calls, manifest_writes, job_results>>

\* Image.from_file cannot open the start image of the scene
VidImageMissing ==
    /\ pc = "video_loop"
    /\ vid_i < Len(script[1].script)
    /\ ~Exists(VideoJob(vid_i).image)
    /\ Raise("FileNotFoundError")
    /\ UNCHANGED <<net, fs, data, calls, img, vid>>

\* a poll loop that gives a running job up after one check and skips the scene
VidPoll_mut_giveup ==
    /\ pc = "video_poll"
    /\ operation[1] = "running"
    /\ polls < MaxPolls
    /\ polls' = polls + 1
    /\ vid_i' = vid_i + 1
    /\ job_results' = Append(job_results, operation[1])
    /\ Goto("video_loop")
    /\ UNCHANGED <<net, fs, data, calls, img, video_clips, jobs, operation,
                   ffmpeg_calls, manifest_writes>>

\* one turn of "while not operation.done": sleep, then operations.get
VidPoll ==
    /\ pc = "video_poll"
    /\ operation[1] = "running"
    /\ polls < MaxPolls
    /\ polls' = polls + 1
    /\ \E st \in JobStates : operation' = Some(st)
    /\ UNCHANGED <<ctl, net, fs, data, calls, img, vid_i, video_clips, jobs, ffmpeg_calls,
                   manifest_writes, job_results>>

\* client.operations.get raises
VidPollRaises ==
    /\ pc = "video_poll"
    /\ operation[1] = "running"
    /\ polls < MaxPolls
    /\ polls' = polls + 1
    /\ Raise("ClientError")
    /\ UNCHANGED <<net, fs, data, calls, img, vid_i, video_clips, jobs, operation,
                   ffmpeg_calls, manifest_writes, job_results>>

\* operation.response is set: the clip is written and recorded
VidPersist ==
    /\ pc = "video_poll"
    /\ operation[1] = "done_with_response"
    /\ fs' = WriteFile(fs, ClipPath(vid_i), "video")
    /\ video_clips' = Append(video_clips, ClipPath(vid_i))
    /\ vid_i' = vid_i + 1
    /\ job_results' = Append(job_results, operation[1])
    /\ Goto("video_loop")
    /\ UNCHANGED <<net, data, calls, img, jobs, operation, polls, ffmpeg_calls,
                   manifest_writes>>

\* a skipped scene that leaves an empty entry in the clip list
VidSkip_mut_gap ==
    /\ pc = "video_poll"
    /\ operation[1] = "done_without_response"
    /\ vid_i' = vid_i + 1
    /\ video_clips' = Append(video_clips, <<>>)
    /\ job_results' = Append(job_results, operation[1])
    /\ Goto("video_loop")
    /\ UNCHANGED <<net, fs, data, calls, img, jobs, operation, polls,
                   ffmpeg_calls, manifest_writes>>

\* no response: the failure is printed and the scene is skipped
VidSkip ==
    /\ pc = "video_poll"
    /\ operation[1] = "done_without_response"
    /\ vid_i' = vid_i + 1
    /\ job_results' = Append(job_results, operation[1])
    /\ Goto("video_loop")
    /\ UNCHANGED <<net, fs, data, calls, img, video_clips, jobs, operation, polls,
                   ffmpeg_calls, manifest_writes>>

\* create_video returns path: to its caller, or out of the orchestrator
VideoReturns(path) ==
    /\ calls' = Returned(calls, "create_video")
    /\ IF entry = "create_video" THEN Finish(path)
       ELSE pc' = "orchestrator_returned" /\ ret' = Some(path) /\ UNCHANGED <<entry, exc>>

LoopOver == pc = "video_loop" /\ vid_i = Len(script[1].script)

VidFinalEmpty ==
    /\ LoopOver
    /\ Len(video_clips) = 0
    /\ VideoReturns(<<>>)
    /\ UNCHANGED <<net, fs, data, img, vid>>

VidFinalSingle ==
    /\ LoopOver
    /\ Len(video_clips) = 1
    /\ VideoReturns(video_clips[1])
    /\ UNCHANGED <<net, fs, data, img, vid>>

\* the concatenation branch taken for one clip already
VidWriteManifest_mut_threshold ==
    /\ LoopOver
    /\ Len(video_clips) >= 1
    /\ fs' = WriteFile(fs, FileListPath, ManifestLines(video_clips))
    /\ manifest_writes' = manifest_writes + 1
    /\ Goto("video_concat")
    /\ UNCHANGED <<net, data, calls, img, vid_i, video_clips, jobs, operation, polls,
                   ffmpeg_calls, job_results>>

\* two clips or more: the manifest is written
VidWriteManifest ==
    /\ LoopOver
    /\ Len(video_clips) > 1
    /\ fs' = WriteFile(fs, FileListPath, ManifestLines(video_clips))
    /\ manifest_writes' = manifest_writes + 1
    /\ Goto("video_concat")
    /\ UNCHANGED <<net, data, calls, img, vid_i, video_clips, jobs, operation, polls,
                   ffmpeg_calls, job_results>>

\* a cleanup that removes the clips and leaves the manifest
VidConcat_mut_manifest ==
    /\ pc = "video_concat"
    /\ ffmpeg_calls' = ffmpeg_calls + 1
    /\ fs' = RemoveAll(WriteFile(fs, FinalVideoPath, "video"), video_clips)
    /\ VideoReturns(FinalVideoPath)
    /\ UNCHANGED <<net, data, img, vid_i, video_clips, jobs, operation, polls,
                   manifest_writes, job_results>>

\* ffmpeg succeeds, then the clips and the manifest are removed
VidConcat ==
    /\ pc = "video_concat"
    /\ ffmpeg_calls' = ffmpeg_calls + 1
    /\ fs' = RemoveFile(RemoveAll(WriteFile(fs, FinalVideoPath, "video"), video_clips),
                        FileListPath)
    /\ VideoReturns(FinalVideoPath)
    /\ UNCHANGED <<net, data, img, vid_i, video_clips, jobs, operation, polls,
                   manifest_writes, job_results>>

\* a failure of ffmpeg after which the clips and the manifest are removed
VidConcatFails_mut_cleanup ==
    /\ pc = "video_concat"
    /\ ffmpeg_calls' = ffmpeg_calls + 1
    /\ fs' = RemoveFile(RemoveAll(fs, video_clips), FileListPath)
    /\ Raise("CalledProcessError")
    /\ UNCHANGED <<net, data, calls, img, vid_i, video_clips, jobs, operation, polls,
                   manifest_writes, job_results>>

\* ffmpeg exits with an error: subprocess.run(check=True) raises; the output
\* file may have been started
VidConcatFails ==
    /\ pc = "video_concat"
    /\ ffmpeg_calls' = ffmpeg_calls + 1
    /\ \E partial \in BOOLEAN :
          fs' = IF partial THEN WriteFile(fs, FinalVideoPath, "partial") ELSE fs
    /\ Raise("CalledProcessError")
    /\ UNCHANGED <<net, data, calls, img, vid_i, video_clips, jobs, operation, polls,
                   manifest_writes, job_results>>

----------------------------------------------------------------------------
(* agents/agent.py and main.py *)

\* character_data["characters"] as the argument of create_story
OrchStoryArgument ==
    /\ pc = "story_argument"
    /\ "characters" \in DOMAIN character_data[1]
    /\ family_history' = Some([records |-> character_data[1].characters])
    /\ Goto("call_story")
    /\ UNCHANGED <<net, fs, family_name, character_data, story, script, images, calls,
                   img, vid>>

\* the error value has no "characters" key
OrchKeyError ==
    /\ pc = "story_argument"
    /\ "characters" \notin DOMAIN character_data[1]
    /\ Raise("KeyError")
    /\ UNCHANGED <<net, fs, data, calls, img, vid>>

\* subprocess.Popen of the lookup service
MainStart ==
    /\ pc = "main_start"
    /\ server' = "starting"
    /\ Goto("main_sleep")
    /\ UNCHANGED <<registry, request, response, model_calls, requests_sent, fs, data,
                   calls, img, vid>>

\* the service binds its port and serves
ServerListen ==
    /\ server = "starting"
    /\ server' = "listening"
    /\ UNCHANGED <<ctl, registry, request, response, model_calls, requests_sent, fs, data,
                   calls, img, vid>>

\* time.sleep(2) is over: generate_family_story_video("Doe") is called
MainCallOrchestrator ==
    /\ pc = "main_sleep"
    /\ family_name' = "Doe"
    /\ Goto("call_fetch")
    /\ UNCHANGED <<net, fs, character_data, family_history, story, script, images, calls,
                   img, vid>>

\* the path is printed and mcp_server_process.terminate() is called
MainTerminate ==
    /\ pc = "orchestrator_returned"
    /\ entry = "main"
    /\ server' = "terminated"
    /\ pc' = "done"
    /\ UNCHANGED <<entry, exc, ret, registry, request, response, model_calls,
                   requests_sent, fs, data, calls, img, vid>>

----------------------------------------------------------------------------
(* Initial values shared by the specifications *)

EmptyRegistry == [f \in {} |-> <<>>]

\* a registry holding the same entries for each of its families
Registries ==
    { [f \in K |-> es] : K \in SUBSET Families, es \in SeqsUpTo(RegistryEntries, MaxChars) }

\* the portraits on disk: both, or the second one missing
PortraitSets == { PortraitFs({EntryA.image_url, EntryB.image_url}),
                  PortraitFs({EntryA.image_url}) }

IdleCtl(e, p) == entry = e /\ pc = p /\ exc = "none" /\ ret = None
IdleNet ==
    /\ server = "not_started" /\ registry = EmptyRegistry
    /\ request = None /\ response = None /\ model_calls = 0 /\ requests_sent = 0
IdleData ==
    /\ family_name = "" /\ character_data = None /\ family_history = None
    /\ story = None /\ script = None /\ images = None
IdleImg == img_i = 0 /\ image_paths = <<>> /\ gen_log = <<>>
IdleVid ==
    /\ vid_i = 0 /\ video_clips = <<>> /\ jobs = <<>> /\ operation = None
    /\ polls = 0 /\ ffmpeg_calls = 0 /\ manifest_writes = 0 /\ job_results = <<>>

----------------------------------------------------------------------------
(* create_story on its own: any list of up to MaxRecords records *)

InitStory ==
    /\ IdleCtl("create_story", "call_story")
    /\ IdleNet /\ IdleImg /\ IdleVid
    /\ fs = PortraitFs({})
    /\ calls = <<>>
    /\ family_name = "" /\ character_data = None
    /\ family_history \in { Some([records |-> r]) :
                                r \in SeqsUpTo(CharacterRecords, MaxRecords) }
    /\ story = None /\ script = None /\ images = None

NextStory == StoryReturn \/ StoryIndexError

SpecStory == InitStory /\ [][NextStory]_vars

----------------------------------------------------------------------------
(* create_script on its own: any story of up to MaxScenes scenes *)

SceneNumbers == {1, 2, 4}
Descriptions == { SceneFourDescription, <<"Narrator: ", "John", " rests.">>, <<>> }
Scenes == [scene_number : SceneNumbers, description : Descriptions]

InitScript ==
    /\ IdleCtl("create_script", "call_script")
    /\ IdleNet /\ IdleImg /\ IdleVid
    /\ fs = PortraitFs({})
    /\ calls = <<>>
    /\ family_name = "" /\ character_data = None /\ family_history = None
    /\ story \in { Some([scenes |-> sc]) : sc \in SeqsUpTo(Scenes, MaxScenes) }
    /\ script = None /\ images = None

NextScript == ScriptReturn

SpecScript == InitScript /\ [][NextScript]_vars

----------------------------------------------------------------------------
(* create_images on its own: any script of up to MaxScenes entries and any
   value get_character_images can return *)

JohnAndJane ==
    << [name |-> "John", birth_place |-> "Springfield", image_url |-> EntryA.image_url],
       [name |-> "Jane", birth_place |-> "Rivertown", image_url |-> EntryB.image_url] >>

\* the entries of the script of the John and Jane story
ScriptEntries ==
    LET entries == create_script(create_story([records |-> JohnAndJane])).script
    IN  { entries[i] : i \in 1..Len(entries) }

FetchedRecords ==
    { JohnAndJane[1], JohnAndJane[2],
      [name |-> "Unknown", birth_place |-> "Unknown", image_url |-> EntryB.image_url] }

FetchedValues ==
    { ErrorValue(404), ErrorValue(400) }
    \cup { [characters |-> cs] : cs \in SeqsUpTo(FetchedRecords, MaxChars) }

InitImages ==
    /\ IdleCtl("create_images", "call_images")
    /\ IdleNet /\ IdleImg /\ IdleVid
    /\ fs \in PortraitSets
    /\ calls = <<>>
    /\ family_name = "" /\ family_history = None /\ story = None /\ images = None
    /\ character_data \in { Some(v) : v \in FetchedValues }
    /\ script \in { Some([script |-> es]) : es \in SeqsUpTo(ScriptEntries, MaxEntries) }

NextImages ==
    \/ ImgEnter
    \/ ImgSceneOne
    \/ ImgSceneOneRaises
    \/ ImgReferenceMissing
    \/ ImgGenerateBefore
    \/ ImgGenerateAfter
    \/ ImgReturn

SpecImages == InitImages /\ [][NextImages]_vars

----------------------------------------------------------------------------
(* create_video on its own: scripts over the entries of a story, the pairs *)
(* create_images gives for them, and the image files present or not        *)

PairFor(scene) ==
    IF scene.scene_number = 1
    THEN ImagePair(scene, UrlPath(EntryA.image_url), UrlPath(EntryB.image_url))
    ELSE ImagePair(scene, StartImagePath(scene), EndImagePath(scene))

PairsFor(es) == [i \in 1..Len(es) |-> PairFor(es[i])]

\* the portraits and the generated images of every scene
ImageFiles ==
    LET portraits == PortraitFs({EntryA.image_url, EntryB.image_url})
        generated == { StartImagePath(e) : e \in ScriptEntries }
                     \cup { EndImagePath(e) : e \in ScriptEntries }
    IN  [p \in DOMAIN portraits \cup generated |->
            IF p \in DOMAIN portraits THEN "portrait" ELSE "image"]

InitVideo ==
    /\ IdleCtl("create_video", "call_video")
    /\ IdleNet /\ IdleImg /\ IdleVid
    /\ fs \in {ImageFiles, PortraitFs({EntryA.image_url, EntryB.image_url})}
    /\ calls = <<>>
    /\ family_name = "" /\ family_history = None /\ character_data = None
    /\ story = Some(create_story([records |-> JohnAndJane]))
    /\ \E es \in SeqsUpTo(ScriptEntries, MaxEntries) :
          /\ script = Some([script |-> es])
          /\ images = Some([images |-> PairsFor(es)])

NextVideo ==
    \/ VidEnter
    \/ VidImageMissing
    \/ VidSubmit
    \/ VidSubmitRaises
    \/ VidPoll
    \/ VidPollRaises
    \/ VidPersist
    \/ VidSkip
    \/ VidFinalEmpty
    \/ VidFinalSingle
    \/ VidWriteManifest
    \/ VidConcat
    \/ VidConcatFails

SpecVideo == InitVideo /\ [][NextVideo]_vars

\* create_video runs in one thread and nothing else is scheduled: a statement
\* that can run does run.  How long a job stays unfinished is not the
\* program's choice and is left open.
FairSpecVideo == SpecVideo /\ WF_vars(NextVideo)

----------------------------------------------------------------------------
(* The lookup service and get_character_images on their own *)

FamilyNames == {"Doe", "Smith", "Lee", ""}

Queries == { <<>>, << <<"other", "x">> >>, << <<"family_name", "Doe">>, <<"family_name", "Lee">> >> }
           \cup { << <<"family_name", n>> >> : n \in FamilyNames }

Requests == [path : { <<"/mcp">>, <<"/mcp", "/x">>, <<"/index.html">> }, query : Queries]

InitLookup ==
    /\ exc = "none" /\ ret = None
    /\ server = "listening"
    /\ registry \in Registries
    /\ fs \in PortraitSets
    /\ response = None /\ model_calls = 0 /\ requests_sent = 0
    /\ \/ /\ entry = "do_GET" /\ pc = "client"
          /\ request \in { Some(r) : r \in Requests }
          /\ family_name = ""
       \/ /\ entry = "get_character_images" /\ pc = "call_fetch"
          /\ request = None
          /\ family_name \in FamilyNames
    /\ character_data = None /\ family_history = None
    /\ story = None /\ script = None /\ images = None
    /\ calls = <<>>
    /\ IdleImg /\ IdleVid

NextLookup ==
    \/ DoGetMcp(ModelReplies)
    \/ DoGetStatic
    \/ FetchSend
    \/ FetchReceive
    \/ FetchDisconnected

SpecLookup == InitLookup /\ [][NextLookup]_vars

----------------------------------------------------------------------------
(* A run of main *)

\* registries of a run: no entry for Doe, or the first k of these entries
DoeEntries == <<EntryA, EntryB, EntryNamed>>
RunRegistries ==
    { [f \in {"Smith"} |-> <<EntryA>>] }
    \cup { [f \in {"Doe"} |-> SubSeq(DoeEntries, 1, k)] : k \in 0..MaxChars }

\* replies of the vision model in a run
RunReplies == {ReplyFencedJohn, ReplyRawText, ReplyRaises}

Init ==
    /\ IdleCtl("main", "main_start")
    /\ server = "not_started"
    /\ registry \in RunRegistries
    /\ request = None /\ response = None /\ model_calls = 0 /\ requests_sent = 0
    /\ fs \in PortraitSets
    /\ IdleData /\ IdleImg /\ IdleVid
    /\ calls = <<>>

Next ==
    \/ MainStart
    \/ ServerListen
    \/ MainCallOrchestrator
    \/ FetchSend
    \/ FetchRefused
    \/ DoGetMcp(RunReplies)
    \/ FetchReceive
    \/ FetchDisconnected
    \/ OrchStoryArgument
    \/ OrchKeyError
    \/ StoryReturn
    \/ StoryIndexError
    \/ ScriptReturn
    \/ ImgEnter
    \/ ImgSceneOne
    \/ ImgGenerateBefore
    \/ ImgGenerateAfter
    \/ ImgReturn
    \/ VidEnter
    \/ VidSubmit
    \/ VidSubmitRaises
    \/ VidPoll
    \/ VidPollRaises
    \/ VidPersist
    \/ VidSkip
    \/ VidFinalEmpty
    \/ VidFinalSingle
    \/ VidWriteManifest
    \/ VidConcat
    \/ VidConcatFails
    \/ MainTerminate

Spec == Init /\ [][Next]_vars

----------------------------------------------------------------------------
(* Properties *)

StoryInput == family_history[1].records
StoryCallOver == entry = "create_story" /\ pc # "call_story"

\* C3: for every input with at least two character records create_story
\* returns exactly 4 scenes whose scene_number values are 1, 2, 3, 4 in that
\* order, whatever the names and birth places and however many records
\* beyond two are supplied.
C3_FourScenesInOrder ==
    (StoryCallOver /\ Len(StoryInput) >= 2) =>
        /\ pc = "returned"
        /\ Len(ret[1].scenes) = SceneCount
        /\ \A i \in 1..SceneCount : ret[1].scenes[i].scene_number = i

\* a call with three records, the first two of them with unknown metadata, has returned
C3_Witness ==
    /\ StoryCallOver /\ pc = "returned"
    /\ Len(StoryInput) >= 3
    /\ StoryInput[1].name = "Unknown" /\ StoryInput[2].birth_place = "Unknown"

SceneOneLiterals ==
    {"Narrator: ", "Meet ", ", born in ", ", a man of strength and skill. And this is ",
     ", a woman of knowledge and grace."}

\* the interpolated values of a description, in the order they occur
Interpolated(description) == SelectSeq(description, LAMBDA tok : tok \notin SceneOneLiterals)

IsJohnAndJane(records) ==
    /\ records[1].name = "John" /\ records[1].birth_place = "Springfield"
    /\ records[2].name = "Jane" /\ records[2].birth_place = "Rivertown"

\* C6: for John (Springfield) and Jane (Rivertown), in that order, scene 1's
\* description contains "Meet John, born in Springfield" and "Jane, born in
\* Rivertown"; in general scene 1 interpolates the name and birth place of
\* record 0 and then of record 1, and of no other record.
C6_SceneOneInterpolation ==
    (StoryCallOver /\ pc = "returned") =>
        LET d == ret[1].scenes[1].description
            r == StoryInput
        IN  /\ Contains(d, <<"Meet ", r[1].name, ", born in ", r[1].birth_place>>)
            /\ Contains(d, <<r[2].name, ", born in ", r[2].birth_place>>)
            /\ Interpolated(d) = <<r[1].name, r[1].birth_place, r[2].name, r[2].birth_place>>
            /\ IsJohnAndJane(r) =>
                  /\ Contains(d, <<"Meet ", "John", ", born in ", "Springfield">>)
                  /\ Contains(d, <<"Jane", ", born in ", "Rivertown">>)

\* John and Jane followed by a third record with other values
C6_Witness ==
    /\ StoryCallOver /\ pc = "returned"
    /\ IsJohnAndJane(StoryInput)
    /\ Len(StoryInput) >= 3
    /\ StoryInput[3].name = "Unknown" /\ StoryInput[3].birth_place = "Unknown"

\* C4: for every story create_script returns a script as long as the story's
\* scene sequence, and entry i has the scene_number and the description of
\* scene i plus the constant placeholder dialogue.
C4_ScriptMirrorsStory ==
    (entry = "create_script" /\ pc = "returned") =>
        LET entries == ret[1].script
            scenes == story[1].scenes
        IN  /\ Len(entries) = Len(scenes)
            /\ \A i \in 1..Len(scenes) :
                  /\ entries[i].scene_number = scenes[i].scene_number
                  /\ entries[i].description = scenes[i].description
                  /\ entries[i].dialogue = <<"This is a placeholder dialogue.">>

\* a story of three scenes that are out of order and share a number
C4_Witness ==
    /\ entry = "create_script" /\ pc = "returned"
    /\ Len(story[1].scenes) >= 3
    /\ story[1].scenes[1].scene_number = 4
    /\ story[1].scenes[2].scene_number = 2
    /\ story[1].scenes[3].scene_number = 2
    /\ story[1].scenes[1].description # story[1].scenes[2].description

\* the family identifier a query carries: its first non-empty family_name value
HasFamilyParam(query) ==
    \E i \in 1..Len(query) : query[i][1] = "family_name" /\ query[i][2] # ""
FamilyParam(query) ==
    LET first == CHOOSE i \in 1..Len(query) :
                    /\ query[i][1] = "family_name" /\ query[i][2] # ""
                    /\ \A j \in 1..(i - 1) : ~(query[j][1] = "family_name" /\ query[j][2] # "")
    IN  query[first][2]

McpAnswered == response # None /\ request # None /\ IsMcpPath(request[1].path)

\* C7: a GET on /mcp is answered 404 when the family identifier is no key of
\* the registry, 400 when the request carries no family_name parameter or an
\* empty one, and 200 only when the identifier is registered; in the 404 and
\* 400 cases no model call is made.
C7_LookupStatus ==
    McpAnswered =>
        LET q == request[1].query
            a == response[1]
        IN  /\ ~HasFamilyParam(q) => (a.sent /\ a.status = 400 /\ model_calls = 0)
            /\ (HasFamilyParam(q) /\ FamilyParam(q) \notin DOMAIN registry) =>
                  (a.sent /\ a.status = 404 /\ model_calls = 0)
            /\ (a.sent /\ a.status = 200) =>
                  (HasFamilyParam(q) /\ FamilyParam(q) \in DOMAIN registry)

\* an unregistered family asked of a registry that holds entries for another
C7_Witness ==
    /\ McpAnswered /\ entry = "do_GET"
    /\ response[1].status = 404
    /\ HasFamilyParam(request[1].query)
    /\ FamilyParam(request[1].query) = "Lee"
    /\ "Doe" \in DOMAIN registry /\ Len(registry["Doe"]) >= 2

FetchCallOver == entry = "get_character_images" /\ pc \in {"returned", "raised"}

\* C8: get_character_images issues exactly one request and returns a value
\* with a "characters" key and no "error" key when the status is 200, and a
\* value with an "error" key and no "characters" key for every other status;
\* for no response status does it raise.
C8_FetchResultShape ==
    FetchCallOver =>
        /\ requests_sent = 1
        /\ response[1].sent => pc = "returned"
        /\ pc = "returned" =>
              IF response[1].status = 200
              THEN "characters" \in DOMAIN ret[1] /\ "error" \notin DOMAIN ret[1]
              ELSE "error" \in DOMAIN ret[1] /\ "characters" \notin DOMAIN ret[1]

\* the service answered 400 to the request for the empty family name
C8_Witness ==
    /\ FetchCallOver /\ pc = "returned"
    /\ family_name = ""
    /\ response[1].status = 400
    /\ "error" \in DOMAIN ret[1]

ResponsePositions == { k \in 1..Len(job_results) : job_results[k] = "done_with_response" }
NamedClip(k) == videos_dir \o <<"/", "scene_", NumText(k), ".mp4">>
RunReturned == entry = "main" /\ pc \in {"orchestrator_returned", "done"}

\* C1: create_video returns the empty string when no scene produced a clip;
\* when exactly one scene did, it returns that clip's path unchanged, the
\* clip file is still there, and no manifest was written and no
\* concatenation run.
C1_EmptyOrSingleClip ==
    RunReturned =>
        /\ ResponsePositions = {} => ret[1] = <<>>
        /\ \A k \in ResponsePositions :
              ResponsePositions = {k} =>
                  /\ ret[1] = NamedClip(k)
                  /\ Exists(NamedClip(k)) /\ fs[NamedClip(k)] = "video"
                  /\ manifest_writes = 0 /\ ffmpeg_calls = 0
                  /\ ~Exists(videos_dir \o <<"/", "file_list.txt">>)

\* only the third of the four jobs came back with a response
C1_Witness ==
    /\ RunReturned
    /\ Len(job_results) = SceneCount
    /\ ResponsePositions = {3}

\* C2: whenever create_video has produced two or more clips, after the call
\* none of the clip files and not the manifest exists, and the returned path
\* is <videos_dir>/final_video.mp4, which exists as the concatenated file.
C2_ConcatenatedAndCleaned ==
    (RunReturned /\ Cardinality(ResponsePositions) >= 2) =>
        /\ \A k \in ResponsePositions : ~Exists(NamedClip(k))
        /\ ~Exists(videos_dir \o <<"/", "file_list.txt">>)
        /\ ret[1] = videos_dir \o <<"/", "final_video.mp4">>
        /\ Exists(ret[1]) /\ fs[ret[1]] = "video"
        /\ ffmpeg_calls = 1

\* three clips, the second scene skipped
C2_Witness ==
    /\ RunReturned
    /\ ResponsePositions = {1, 3, 4}
    /\ ffmpeg_calls = 1

ImagesCallOver == entry = "create_images" /\ pc \in {"returned", "raised"}

\* C5: create_images always returns exactly one ImagePair per ScriptEntry,
\* pair i carrying the scene_number of entry i, for every script and every
\* value returned by the Metadata Fetcher, the error-shaped value and a list
\* of fewer than two records included.  (Stated for readable portraits.)
C5_OnePairPerEntry ==
    (ImagesCallOver /\ exc # "FileNotFoundError") =>
        /\ pc = "returned"
        /\ Len(ret[1].images) = Len(script[1].script)
        /\ \A i \in 1..Len(script[1].script) :
              ret[1].images[i].scene_number = script[1].script[i].scene_number

StageOrder ==
    << <<"call", "get_character_images">>, <<"return", "get_character_images">>,
       <<"call", "create_story">>, <<"return", "create_story">>,
       <<"call", "create_script">>, <<"return", "create_script">>,
       <<"call", "create_images">>, <<"return", "create_images">>,
       <<"call", "create_video">>, <<"return", "create_video">> >>

\* C9: in every run the stages are invoked in the order Metadata Fetcher,
\* Narrative Builder, Scene Scripter, Image Synthesizer, Video Synthesizer,
\* each at most once, none before its predecessor has returned and none
\* again after a failure.
C9_StagesInOrder ==
    /\ Len(calls) <= Len(StageOrder)
    /\ \A i \in 1..Len(calls) : calls[i] = StageOrder[i]
    /\ RunReturned => calls = StageOrder

\* the video request of the third scene raised after four stages had returned
C9_Witness ==
    /\ entry = "main" /\ pc = "raised" /\ exc = "ClientError"
    /\ Len(calls) = 9
    /\ Len(jobs) = 3

InVideo ==
    /\ entry = "main"
    /\ Len(calls) >= 9
    /\ calls[9] = <<"call", "create_video">>

SceneLoopEnded == InVideo /\ (LoopOver \/ pc \in {"video_concat", "orchestrator_returned", "done"}
                                       \/ exc = "CalledProcessError")

\* s begins with t
StartsWith(s, t) == Len(s) >= Len(t) /\ SubSeq(s, 1, Len(t)) = t

----------------------------------------------------------------------------
(* The lookup service process and failures of the stages *)

\* main has come to its end: through its last statement, or through an
\* exception that left it
RunOver == entry = "main" /\ pc \in {"done", "raised"}

ServerStarted == server # "not_started"

\* C11: every run of main that has started the lookup service has terminated
\* that process when the run is over, whatever the outcome of the
\* orchestrator call: a returned path, an empty path, or an exception raised
\* by a stage.
C11_ServerTerminated ==
    (RunOver /\ ServerStarted) => server = "terminated"

\* the lookup service has answered the fetch of this run with a status other
\* than 200
NonOkAnswer ==
    /\ entry = "main"
    /\ response # None
    /\ response[1].sent
    /\ response[1].status # 200

Invoked(stage) == \E i \in 1..Len(calls) : calls[i] = <<"call", stage>>

\* C12: when the lookup service answers with a non-200 status, the error
\* value returned by the Metadata Fetcher is not turned into an exception and
\* is not inspected by generate_family_story_video: the run continues past
\* the fetch and invokes the Narrative Builder and the later stages.
C12_RunContinuesPastErrorValue ==
    (NonOkAnswer /\ Invoked("get_character_images")) =>
        /\ exc = "none"
        /\ RunOver =>
              /\ Invoked("create_story")
              /\ Invoked("create_script")
              /\ Invoked("create_images")
              /\ Invoked("create_video")

\* create_video is over, otherwise than by a failure of ffmpeg
VideoCallOver ==
    /\ InVideo
    /\ pc \in {"raised", "orchestrator_returned", "done"}
    /\ exc # "CalledProcessError"

\* C13: every video generation failure of a scene, whether the completed job
\* carries no response or the generation request itself throws an error, is
\* caught inside create_video and skips only that scene: the remaining scenes
\* are still attempted and create_video still returns a path or the empty
\* string.
C13_FailureSkipsOnlyTheScene ==
    VideoCallOver =>
        /\ pc # "raised"
        /\ Len(jobs) = Len(script[1].script)
        /\ ret # None
        /\ ret[1] = <<>> \/ Exists(ret[1])

----------------------------------------------------------------------------
(* create_images: generation requests and their files *)

\* the pairs emitted so far for entries other than scene 1
GeneratedPairs == SelectSeq(image_paths, LAMBDA p : p.scene_number # 1)

\* request k is the latest one so far that targets its file
LatestForItsPath(k) ==
    \A j \in (k + 1)..Len(gen_log) : gen_log[j].output_path # gen_log[k].output_path

\* C14: for every scene other than scene 1, when an image generation request
\* fails (no image data in the response, or the request raises),
\* create_images writes the textual placeholder to exactly the target path of
\* that request, still performs the other request of the scene, still emits
\* the scene's ImagePair with both target paths, and continues with the next
\* scene; an image already written for the scene is left in place.
C14_FailureWritesPlaceholder ==
    \* each target holds what the latest request for it left: the image, or
    \* the placeholder of a failed request
    /\ \A k \in 1..Len(gen_log) :
          LatestForItsPath(k) =>
              /\ Exists(gen_log[k].output_path)
              /\ fs[gen_log[k].output_path] =
                    IF gen_log[k].ok THEN "image" ELSE "placeholder"
    \* a placeholder is nowhere but at the target of a failed request
    /\ \A p \in DOMAIN fs :
          fs[p] = "placeholder" =>
              \E k \in 1..Len(gen_log) : gen_log[k].output_path = p /\ ~gen_log[k].ok
    \* the second request of a scene follows the first, failed or not
    /\ Len(gen_log) = 2 * Len(GeneratedPairs) + (IF pc = "images_after" THEN 1 ELSE 0)
    \* the pair of the scene carries the targets of its two requests
    /\ \A j \in 1..Len(GeneratedPairs) :
          /\ GeneratedPairs[j].start_image_path = gen_log[2 * j - 1].output_path
          /\ GeneratedPairs[j].end_image_path = gen_log[2 * j].output_path
    \* no failed request ends the call: the loop goes on to the next entry
    /\ Len(image_paths) = img_i
    /\ exc \in {"none", "KeyError", "IndexError", "FileNotFoundError"}
    /\ (pc = "returned" /\ entry = "create_images") =>
          Len(ret[1].images) = Len(script[1].script)

\* two scenes: the first request succeeded and the second failed, then the
\* first failed and the second succeeded, and the call returned both pairs
C14_Witness ==
    /\ entry = "create_images" /\ pc = "returned"
    /\ Len(gen_log) = 4
    /\ gen_log[1].ok /\ ~gen_log[2].ok /\ ~gen_log[3].ok /\ gen_log[4].ok
    /\ gen_log[1].output_path # gen_log[3].output_path
    /\ fs[gen_log[1].output_path] = "image"
    /\ fs[gen_log[2].output_path] = "placeholder"
    /\ Len(ret[1].images) = 2

\* the target files of scene n, by name
SceneStartPng(n) == images_dir \o <<"/", "scene_", NumText(n), "_start.png">>
SceneEndPng(n) == images_dir \o <<"/", "scene_", NumText(n), "_end.png">>

\* the requests due for the first k script entries, in order
RECURSIVE RequestsDue(_)
RequestsDue(k) ==
    IF k = 0 THEN <<>>
    ELSE LET n == script[1].script[k].scene_number
         IN  RequestsDue(k - 1) \o
             (IF n = 1 THEN <<>>
              ELSE << [kind |-> "before", target |-> SceneStartPng(n), scene_number |-> n],
                      [kind |-> "after", target |-> SceneEndPng(n), scene_number |-> n] >>)

\* request r is the one that due stands for
IsDueRequest(r, due) ==
    /\ r.output_path = due.target
    /\ r.prompt[1] = (IF due.kind = "before" THEN "Before the action: "
                      ELSE IF due.scene_number = 4 THEN "A wedding picture of John and Jane"
                      ELSE "After the action: ")
    /\ (due.kind = "after" /\ due.scene_number = 4) => Len(r.prompt) = 2

\* C18: for the script entry with scene_number 1 create_images issues no
\* generation request and writes no file, and its ImagePair is the portrait
\* path of character 0 as start and of character 1 as end; for every other
\* script entry it issues exactly two generation requests, the before prompt
\* then the after prompt, targeting scene_<n>_start.png and scene_<n>_end.png,
\* and for scene 4 the after prompt is the fixed wedding-photo prompt.
\* (Stated of the entries the loop has handled, and of the first request of
\* the entry it is handling.)
C18_RequestsPerEntry ==
    LET due == RequestsDue(img_i) \o
               (IF pc = "images_after"
                THEN <<RequestsDue(img_i + 1)[Len(RequestsDue(img_i)) + 1]>> ELSE <<>>)
    IN  /\ Len(gen_log) = Len(due)
        /\ \A k \in 1..Len(due) : IsDueRequest(gen_log[k], due[k])
        /\ Len(image_paths) = img_i
        /\ \A i \in 1..img_i :
              /\ image_paths[i].scene_number = script[1].script[i].scene_number
              /\ IF script[1].script[i].scene_number = 1
                 THEN /\ image_paths[i].start_image_path =
                            character_data[1].characters[1].image_url.path
                      /\ image_paths[i].end_image_path =
                            character_data[1].characters[2].image_url.path
                 ELSE /\ image_paths[i].start_image_path =
                            SceneStartPng(script[1].script[i].scene_number)
                      /\ image_paths[i].end_image_path =
                            SceneEndPng(script[1].script[i].scene_number)
        /\ \A p \in DOMAIN fs :
              fs[p] # "portrait" => \E k \in 1..Len(gen_log) : gen_log[k].output_path = p

\* a script of scene 1 and scene 4 has been handled: two requests, both for
\* scene 4, and the portraits as the pair of scene 1
C18_Witness ==
    /\ entry = "create_images" /\ pc = "returned"
    /\ Len(script[1].script) = 2
    /\ script[1].script[1].scene_number = 1
    /\ script[1].script[2].scene_number = 4
    /\ Len(gen_log) = 2
    /\ gen_log[2].prompt[1] = "A wedding picture of John and Jane"
    /\ ret[1].images[1].start_image_path = EntryA.image_url.path

----------------------------------------------------------------------------
(* create_video: the clip list, the manifest and a failure of ffmpeg *)

\* the clips due after the first k jobs: one per job that completed with a
\* response, named after its scene
RECURSIVE ClipsDue(_)
ClipsDue(k) ==
    IF k = 0 THEN <<>>
    ELSE ClipsDue(k - 1) \o
         (IF job_results[k] = "done_with_response" THEN <<NamedClip(k)>> ELSE <<>>)

ManifestFile == videos_dir \o <<"/", "file_list.txt">>

\* C15: the clip list built by create_video is, in increasing scene order,
\* exactly the scenes whose job completed with a response: a failed scene
\* contributes no clip and no gap marker, the clips of the other scenes keep
\* their relative order and their own scene-numbered file names, and the
\* concatenation manifest lists the clips in that same order.
C15_ClipListInSceneOrder ==
    InVideo =>
        /\ video_clips = ClipsDue(Len(job_results))
        /\ pc = "video_concat" => Exists(ManifestFile)
        /\ Exists(ManifestFile) =>
              /\ Len(fs[ManifestFile]) = Len(video_clips)
              /\ \A k \in 1..Len(video_clips) :
                    fs[ManifestFile][k] = <<"file '">> \o video_clips[k] \o <<"'">>

\* the second scene failed: the manifest lists the clips of scenes 1, 3, 4
C15_Witness ==
    /\ InVideo /\ pc = "video_concat"
    /\ job_results = <<"done_with_response", "done_without_response",
                       "done_with_response", "done_with_response">>
    /\ Len(fs[ManifestFile]) = 3
    /\ fs[ManifestFile][2] = <<"file '">> \o NamedClip(3) \o <<"'">>

\* C17: when the external stream-copy concatenation fails, create_video
\* raises and the whole run aborts without returning a path; in that case
\* none of the intermediate clip files and not the manifest has been deleted.
C17_ConcatFailureAborts ==
    (InVideo /\ ffmpeg_calls > 0 /\ ~RunReturned) =>
        /\ pc = "raised" /\ exc = "CalledProcessError"
        /\ ret = None
        /\ calls[Len(calls)] = <<"call", "create_video">>
        /\ Cardinality(ResponsePositions) >= 2
        /\ \A k \in ResponsePositions : Exists(NamedClip(k)) /\ fs[NamedClip(k)] = "video"
        /\ Exists(ManifestFile)

\* ffmpeg failed on the clips of all four scenes
C17_Witness ==
    /\ InVideo /\ pc = "raised" /\ exc = "CalledProcessError"
    /\ ResponsePositions = {1, 2, 3, 4}
    /\ \A k \in 1..4 : Exists(NamedClip(k))
    /\ Exists(ManifestFile)

----------------------------------------------------------------------------
(* create_video: waiting for the jobs *)

JobDone == operation # None /\ operation[1] \in {"done_with_response", "done_without_response"}

\* the job of the current scene is unfinished and stays so: the model follows
\* a job through MaxPolls status checks, and one still running then stands
\* for a job that never reports completion.  The loop has no other exit, so
\* control stays in it.
NeverCompletes ==
    /\ pc = "video_poll"
    /\ operation[1] = "running"
    /\ polls = MaxPolls

\* control has left the scene loop for the statements after it
Finalization ==
    \/ LoopOver
    \/ pc \in {"video_concat", "returned"}
    \/ exc = "CalledProcessError"

CallOver == pc \in {"returned", "raised"}

\* one job at a time, and outcomes only of jobs that reported completion
OneJobAtATime ==
    /\ Len(job_results) = vid_i
    /\ Len(jobs) \in {Len(job_results), Len(job_results) + 1}
    /\ \A k \in 1..Len(job_results) :
          job_results[k] \in {"done_with_response", "done_without_response"}
    /\ Finalization =>
          /\ Len(jobs) = Len(script[1].script)
          /\ Len(job_results) = Len(jobs)

\* a step that decides a scene (clip persisted or scene skipped) is taken
\* from the poll loop with the job done; a step that submits a job finds
\* every earlier job decided
DecidedAfterCompletion ==
    /\ (vid_i' # vid_i /\ pc # "call_video") =>
          /\ pc = "video_poll" /\ JobDone
          /\ vid_i' = vid_i + 1
          /\ job_results' = Append(job_results, operation[1])
    /\ (jobs' # jobs /\ pc # "call_video") =>
          /\ jobs' = Append(jobs, VideoJob(vid_i))
          /\ Len(job_results) = Len(jobs)
    /\ NeverCompletes => NeverCompletes'

============================================================================
